---- MODULE Spec2Model ----
(***************************************************************************)
(* The mzip command-line utility (src/main.c) driving the archive engine  *)
(* it is built on.  One process invocation is a run of main; successive   *)
(* invocations share the file system (the archive file and the plain      *)
(* files of the working directory).  The engine itself is modelled at     *)
(* the level of its directory of entries.                                 *)
(***************************************************************************)
EXTENDS Integers, Sequences, FiniteSets, TLC

(* ---------------- bounds of the model ---------------- *)
MaxRuns == 2
MaxFiles == 2
MaxFaults == 2

(* ---------------- strings ---------------- *)
Prog == <<"m", "z">>
ZipPath == <<"z">>
FlagL == <<"-", "l">>
FlagX == <<"-", "x">>
FlagC == <<"-", "c">>
FlagA == <<"-", "a">>
FlagBogus == <<"-", "z">>
Flags == {FlagL, FlagX, FlagC, FlagA, FlagBogus}

PathA == <<"a">>
PathB == <<"b">>
PathDA == <<"d", "/", "a">>
PathDB == <<"d", "/", "b">>
AllPaths == {PathA, PathB, PathDA, PathDB}
InputPaths == {PathA, PathDA, PathDB}

NoFile == [exists |-> FALSE, data |-> <<>>]
File(d) == [exists |-> TRUE, data |-> d]

InitialFs == [p \in AllPaths |->
                 CASE p = PathA -> File(<<1, 2>>)
                   [] p = PathDA -> File(<<3>>)
                   [] p = PathDB -> File(<<>>)
                   [] OTHER -> NoFile]

RECURSIVE InjectiveSeqs(_, _)
InjectiveSeqs(S, k) ==
    IF k = 0 THEN {<<>>}
    ELSE LET shorter == InjectiveSeqs(S, k - 1)
         IN shorter \cup {Append(s, x) : s \in {t \in shorter : Len(t) = k - 1},
                                          x \in S}
FileLists == {s \in InjectiveSeqs(InputPaths, MaxFiles) :
                 \A p, q \in 1..Len(s) : p # q => s[p] # s[q]}

ArgvSet == {<<Prog>>} \cup {<<Prog, f>> : f \in Flags}
           \cup {<<Prog, f, ZipPath>> \o fl : f \in Flags, fl \in FileLists}

(* ---------------- checksum engine ---------------- *)
BitsPerByte == 8
PolyBits == <<0,0,0,0, 0,1,0,0, 1,1,0,0, 0,0,0,1, 0,0,0,1, 1,1,0,1, 1,0,1,1, 0,1,1,1>>
AllOnes == [k \in 1..Len(PolyBits) |-> 1]
XorBits(a, b) == [k \in 1..Len(PolyBits) |-> (a[k] + b[k]) % 2]
RECURSIVE ByteBits(_, _)
ByteBits(b, k) == IF k > Len(PolyBits) THEN <<>>
                  ELSE <<b % 2>> \o ByteBits(b \div 2, k + 1)
ShiftRight(c) == Tail(c) \o <<0>>
RECURSIVE CrcRounds(_, _)
CrcRounds(c, k) ==
    IF k = 0 THEN c
    ELSE CrcRounds(IF c[1] = 1 THEN XorBits(ShiftRight(c), PolyBits)
                   ELSE ShiftRight(c), k - 1)
RECURSIVE CrcUpdate(_, _)
CrcUpdate(c, data) ==
    IF data = <<>> THEN c
    ELSE CrcUpdate(CrcRounds(XorBits(c, ByteBits(Head(data), 1)),
                             BitsPerByte), Tail(data))
crc32(data) == XorBits(CrcUpdate(AllOnes, data), AllOnes)

(* ---------------- codec registry ---------------- *)
MethodStore == 0
MethodDeflate == 8
Registry == {MethodStore, MethodDeflate}

(* ---------------- allocated buffers ---------------- *)
NewBuffer == [frees |-> 0, owner |-> "cli", data |-> <<>>]
Release(h, S) == [k \in DOMAIN h |->
                     IF k \in S THEN [h[k] EXCEPT !.frees = @ + 1] ELSE h[k]]

(* ---------------- archive file and directory ---------------- *)
Entry(name, data, method, crc, staged, buf) ==
    [name |-> name, data |-> data, method |-> method, crc |-> crc,
     staged |-> staged, buf |-> buf]
Flushed(e) == [e EXCEPT !.staged = FALSE, !.buf = 0]

NoArchive == [exists |-> FALSE, valid |-> FALSE, entries |-> <<>>]
Malformed == [exists |-> TRUE, valid |-> FALSE, entries |-> <<>>]
Archive(es) == [exists |-> TRUE, valid |-> TRUE, entries |-> es]
(* an archive whose first payload was corrupted on disk after it was written *)
DamagedArchive ==
    Archive(<<Entry(PathB, <<5>>, MethodStore, crc32(<<4>>), FALSE, 0),
              Entry(PathA, <<6, 7>>, MethodStore, crc32(<<6, 7>>), FALSE, 0)>>)
(* the archive a clean run of "-c z a d/b" leaves *)
HealthyArchive ==
    Archive(<<Entry(PathA, <<1, 2>>, MethodStore, crc32(<<1, 2>>), FALSE, 0),
              Entry(PathB, <<>>, MethodStore, crc32(<<>>), FALSE, 0)>>)
InitialArchives == {NoArchive, Malformed, DamagedArchive, HealthyArchive}

NullArchive == [state |-> "null", dir |-> <<>>, dirty |-> FALSE]
ZIP_RDONLY == {}
ZIP_CREATE == {"ZIP_CREATE"}
ZIP_TRUNCATE == {"ZIP_TRUNCATE"}

(* open: the handle for the archive file d, or NullArchive *)
zip_open(d, flags, inj) ==
    IF inj THEN NullArchive
    ELSE IF "ZIP_CREATE" \in flags
    THEN IF "ZIP_TRUNCATE" \in flags \/ ~d.exists
         THEN [state |-> "writable", dir |-> <<>>, dirty |-> TRUE]
         ELSE IF d.valid
              THEN [state |-> "writable", dir |-> d.entries, dirty |-> FALSE]
              ELSE NullArchive
    ELSE IF d.exists /\ d.valid
         THEN [state |-> "readable", dir |-> d.entries, dirty |-> FALSE]
         ELSE NullArchive

zip_get_num_files(a) == Len(a.dir)

(* add_entry: <<index or -1, handle afterwards>> *)
zip_file_add(a, name, data, buf, method, inj) ==
    IF inj \/ a.state # "writable" \/ method \notin Registry
    THEN <<-1, a>>
    ELSE <<Len(a.dir),
           [a EXCEPT !.dir = Append(a.dir, Entry(name, data, method, crc32(data), TRUE, buf)),
                     !.dirty = TRUE]>>

(* set_entry_method: <<0 or -1, handle afterwards>> *)
zip_set_file_compression(a, index, method, inj) ==
    IF inj \/ a.state # "writable" \/ index < 0 \/ index >= Len(a.dir)
       \/ method \notin Registry
    THEN <<-1, a>>
    ELSE IF ~a.dir[index + 1].staged THEN <<-1, a>>
    ELSE <<0, [a EXCEPT !.dir[index + 1].method = method]>>

(* get_payload: the entry handle, or a handle with live = FALSE for NULL *)
NullFile == [live |-> FALSE, data |-> <<>>, size |-> 0]
zip_fopen_index(a, index, inj) ==
    IF inj \/ a.state = "null" \/ a.state = "closed"
       \/ index < 0 \/ index >= Len(a.dir)
    THEN NullFile
    ELSE LET e == a.dir[index + 1]
         IN IF e.staged THEN [live |-> TRUE, data |-> e.data, size |-> Len(e.data)]
            ELSE IF e.method \notin Registry THEN NullFile
            ELSE IF crc32(e.data) # e.crc THEN NullFile
            ELSE [live |-> TRUE, data |-> e.data, size |-> Len(e.data)]

(* finalize: the archive file after the directory has been written out *)
finalize(a) == Archive([k \in 1..Len(a.dir) |-> Flushed(a.dir[k])])

(* close: <<0 or -1, archive file afterwards>> *)
zip_close(a, d, inj) ==
    IF a.state = "writable" /\ a.dirty
    THEN IF inj THEN <<-1, d>> ELSE <<0, finalize(a)>>
    ELSE <<0, d>>

(* add_entry owns the source it was given: on failure it releases the *)
(* source and, the source owning it, the buffer                       *)
zip_source_free(h, result, b) == IF result < 0 THEN Release(h, {b}) ELSE h

(* buffers the engine holds for staged entries *)
StagedBufs(a) == {a.dir[k].buf : k \in {j \in 1..Len(a.dir) : a.dir[j].staged}}

(* ---------------- the process and the file system ---------------- *)
VARIABLES pc, runs, faults, argv, files, create_mode, i, n,
          fs, disk, disk0, za, heap,
          file_size, buffer, base_name, src, idx, zf, fname, printed,
          log, exit, prev

vars == <<pc, runs, faults, argv, files, create_mode, i, n,
          fs, disk, disk0, za, heap,
          file_size, buffer, base_name, src, idx, zf, fname, printed,
          log, exit, prev>>

create_locals == <<file_size, buffer, base_name, src, idx>>
extract_locals == <<zf, fname, printed>>
invocation == <<runs, argv, files, create_mode, disk0, prev>>

Ev(op, k, ok, val) == [op |-> op, i |-> k, ok |-> ok, val |-> val]
Inject(possible) == IF possible /\ faults > 0 THEN BOOLEAN ELSE {FALSE}
Charge(inj) == faults' = faults - (IF inj THEN 1 ELSE 0)



Start(r, f, archives) ==
    /\ pc = "idle" /\ runs = r /\ faults = f
    /\ argv = <<Prog>> /\ files = <<>> /\ create_mode = FALSE
    /\ i = 0 /\ n = 0
    /\ fs = InitialFs
    /\ disk \in archives /\ disk0 = disk
    /\ za = NullArchive /\ heap = <<>>
    /\ file_size = 0 /\ buffer = 0 /\ base_name = <<>> /\ src = 0 /\ idx = 0
    /\ zf = NullFile /\ fname = <<>> /\ printed = 0
    /\ log = <<>> /\ exit = -1
    /\ prev = [kind |-> "none", create |-> FALSE, files |-> <<>>, fs |-> InitialFs,
               fresh |-> FALSE]

(* one invocation, in which up to MaxFaults operations fail for reasons *)
(* outside the arguments and the files                                 *)
Init == Start(1, MaxFaults, InitialArchives)
(* up to MaxRuns invocations in a row, none disturbed from outside *)
InitSession == Start(MaxRuns, 0, {NoArchive, DamagedArchive})

(* ---------------- main ---------------- *)
Dispatch_ListIgnoresExtra(a) ==
    IF Len(a) < 3 THEN "usage"
    ELSE IF a[2] = FlagL THEN "list_files"
    ELSE IF a[2] = FlagX THEN (IF Len(a) # 3 THEN "usage" ELSE "extract_all")
    ELSE IF a[2] = FlagC \/ a[2] = FlagA
         THEN (IF Len(a) < 4 THEN "usage" ELSE "create_or_add_files")
    ELSE "usage"

(* which function main hands the run to; a holds argv[0..argc-1] *)
Dispatch(a) ==
    IF Len(a) < 3 THEN "usage"
    ELSE IF a[2] = FlagL THEN (IF Len(a) # 3 THEN "usage" ELSE "list_files")
    ELSE IF a[2] = FlagX THEN (IF Len(a) # 3 THEN "usage" ELSE "extract_all")
    ELSE IF a[2] = FlagC \/ a[2] = FlagA
         THEN (IF Len(a) < 4 THEN "usage" ELSE "create_or_add_files")
    ELSE "usage"

main ==
    /\ pc \in {"idle", "done"}
    /\ runs > 0
    /\ \E a \in ArgvSet :
          /\ argv' = a
          /\ files' = IF Dispatch(a) = "create_or_add_files"
                      THEN SubSeq(a, 4, Len(a)) ELSE <<>>
          /\ create_mode' = (Dispatch(a) = "create_or_add_files" /\ a[2] = FlagC)
          /\ pc' = CASE Dispatch(a) = "list_files" -> "l_open"
                     [] Dispatch(a) = "extract_all" -> "x_open"
                     [] Dispatch(a) = "create_or_add_files" -> "c_open"
                     [] OTHER -> "done"
          /\ exit' = IF Dispatch(a) = "usage" THEN 1 ELSE -1
    /\ runs' = runs - 1
    /\ prev' = IF pc = "idle" THEN prev
               ELSE [kind |-> Dispatch(argv), create |-> create_mode, files |-> files,
                     fs |-> fs, fresh |-> ~disk0.exists]
    /\ disk0' = disk
    /\ za' = NullArchive /\ heap' = <<>> /\ log' = <<>>
    /\ i' = 0 /\ n' = 0
    /\ file_size' = 0 /\ buffer' = 0 /\ base_name' = <<>> /\ src' = 0 /\ idx' = 0
    /\ zf' = NullFile /\ fname' = <<>> /\ printed' = 0
    /\ UNCHANGED <<faults, fs, disk>>

(* ---------------- shared pieces ---------------- *)
Continue_Break(head) ==
    /\ i' = i
    /\ pc' = IF head = "c_loop" THEN "c_close" ELSE "x_close"

(* continue: next iteration of the loop whose test is at head *)
Continue(head) ==
    /\ i' = i + 1
    /\ pc' = head

(* zip_close(za) as the three functions call it *)
CloseArchive(inj) ==
    /\ disk' = zip_close(za, disk, inj)[2]
    /\ za' = [za EXCEPT !.state = "closed"]
    /\ heap' = Release(heap, StagedBufs(za))
    /\ log' = Append(log, Ev("zip_close", 0, zip_close(za, disk, inj)[1] = 0, za.state))

(* ---------------- list_files ---------------- *)
LOpen ==
    /\ pc = "l_open"
    /\ \E inj \in Inject(TRUE) :
          /\ Charge(inj)
          /\ za' = zip_open(disk, ZIP_RDONLY, inj)
          /\ IF za'.state = "null"
             THEN /\ log' = Append(log, Ev("zip_open", 0, FALSE, ZIP_RDONLY))
                  /\ n' = n /\ exit' = 1 /\ pc' = "done"
             ELSE /\ log' = log \o <<Ev("zip_open", 0, TRUE, ZIP_RDONLY),
                                     Ev("zip_get_num_files", 0, TRUE, {})>>
                  /\ n' = zip_get_num_files(za') /\ exit' = exit /\ pc' = "l_loop"
    /\ UNCHANGED <<invocation, i, fs, disk, heap, create_locals, extract_locals>>

LLoop ==
    /\ pc = "l_loop"
    /\ IF i < n
       THEN /\ printed' = i
            /\ fname' = za.dir[i + 1].name
            /\ i' = i + 1
            /\ pc' = pc
       ELSE /\ pc' = "l_close"
            /\ UNCHANGED <<printed, fname, i>>
    /\ UNCHANGED <<invocation, faults, n, fs, disk, za, heap, create_locals, zf, log, exit>>

LClose ==
    /\ pc = "l_close"
    /\ CloseArchive(FALSE)
    /\ exit' = 0
    /\ pc' = "done"
    /\ UNCHANGED <<invocation, faults, i, n, fs, create_locals, extract_locals>>

(* ---------------- create_or_add_files ---------------- *)
OpenFlags_AlwaysTruncate(create) == ZIP_CREATE \cup ZIP_TRUNCATE

OpenFlags(create) == IF create THEN ZIP_CREATE \cup ZIP_TRUNCATE ELSE ZIP_CREATE

(* strrchr(filename, '/'): the position of the last '/', 0 when there is none *)
strrchr(s, c) ==
    IF \E k \in 1..Len(s) : s[k] = c
    THEN CHOOSE k \in 1..Len(s) : s[k] = c /\ \A j \in (k + 1)..Len(s) : s[j] # c
    ELSE 0

BaseName_Whole(filename) == filename

BaseName(filename) ==
    IF strrchr(filename, "/") # 0
    THEN SubSeq(filename, strrchr(filename, "/") + 1, Len(filename))
    ELSE filename

AddFailed_OffByOne(x) == x < -1

AddFailed(x) == x < 0

COpen ==
    /\ pc = "c_open"
    /\ \E inj \in Inject(TRUE) :
          /\ Charge(inj)
          /\ za' = zip_open(disk, OpenFlags(create_mode), inj)
          /\ log' = Append(log, Ev("zip_open", 0, za'.state # "null", OpenFlags(create_mode)))
          /\ IF za'.state = "null"
             THEN exit' = 1 /\ pc' = "done"
             ELSE exit' = exit /\ pc' = "c_loop"
    /\ UNCHANGED <<invocation, i, n, fs, disk, heap, create_locals, extract_locals>>

CLoop ==
    /\ pc = "c_loop"
    /\ pc' = IF i < Len(files) THEN "c_fopen" ELSE "c_close"
    /\ UNCHANGED <<invocation, faults, i, n, fs, disk, za, heap, create_locals,
                   extract_locals, log, exit>>

CFopen ==
    /\ pc = "c_fopen"
    /\ \E inj \in Inject(fs[files[i + 1]].exists) :
          /\ Charge(inj)
          /\ IF fs[files[i + 1]].exists /\ ~inj
             THEN /\ log' = Append(log, Ev("fopen", i, TRUE, files[i + 1]))
                  /\ pc' = "c_size" /\ i' = i
             ELSE /\ log' = Append(log, Ev("fopen", i, FALSE, files[i + 1]))
                  /\ Continue("c_loop")
    /\ UNCHANGED <<invocation, n, fs, disk, za, heap, create_locals, extract_locals, exit>>

CSize ==
    /\ pc = "c_size"
    /\ \E inj \in Inject(TRUE) :
          /\ Charge(inj)
          /\ file_size' = IF inj THEN -1 ELSE Len(fs[files[i + 1]].data)
          /\ log' = Append(log, Ev("ftell", i, ~inj, file_size'))
          /\ IF file_size' < 0
             THEN Continue("c_loop")
             ELSE pc' = "c_malloc" /\ i' = i
    /\ UNCHANGED <<invocation, n, fs, disk, za, heap, buffer, base_name, src, idx,
                   extract_locals, exit>>

CMalloc ==
    /\ pc = "c_malloc"
    /\ \E inj \in Inject(TRUE) :
          /\ Charge(inj)
          /\ IF inj
             THEN /\ buffer' = 0 /\ heap' = heap
                  /\ log' = Append(log, Ev("malloc", i, FALSE, 0))
                  /\ Continue("c_loop")
             ELSE /\ buffer' = Len(heap) + 1
                  /\ heap' = Append(heap, NewBuffer)
                  /\ log' = Append(log, Ev("malloc", i, TRUE, buffer'))
                  /\ pc' = "c_read" /\ i' = i
    /\ UNCHANGED <<invocation, n, fs, disk, za, file_size, base_name, src, idx,
                   extract_locals, exit>>

ReadFailed_Leak ==
    /\ heap' = heap
    /\ log' = Append(log, Ev("fread", i, FALSE, buffer))
    /\ Continue("c_loop")

(* lines 86-89: the read came up short *)
ReadFailed ==
    /\ heap' = Release(heap, {buffer})
    /\ log' = log \o <<Ev("fread", i, FALSE, buffer), Ev("free", i, TRUE, buffer)>>
    /\ Continue("c_loop")

CRead ==
    /\ pc = "c_read"
    /\ \E inj \in Inject(TRUE) :
          /\ Charge(inj)
          /\ IF inj
             THEN ReadFailed
             ELSE /\ heap' = [heap EXCEPT ![buffer].data =
                                 SubSeq(fs[files[i + 1]].data, 1, file_size)]
                  /\ log' = Append(log, Ev("fread", i, TRUE, buffer))
                  /\ pc' = "c_src" /\ i' = i
    /\ UNCHANGED <<invocation, n, fs, disk, za, create_locals, extract_locals, exit>>

CSource ==
    /\ pc = "c_src"
    /\ base_name' = BaseName(files[i + 1])
    /\ \E inj \in Inject(TRUE) :
          /\ Charge(inj)
          /\ IF inj
             THEN /\ src' = 0
                  /\ heap' = Release(heap, {buffer})
                  /\ log' = log \o <<Ev("zip_source_buffer", i, FALSE, buffer),
                                     Ev("free", i, TRUE, buffer)>>
                  /\ Continue("c_loop")
             ELSE /\ src' = buffer
                  /\ heap' = [heap EXCEPT ![buffer].owner = "engine"]
                  /\ log' = Append(log, Ev("zip_source_buffer", i, TRUE, buffer))
                  /\ pc' = "c_add" /\ i' = i
    /\ UNCHANGED <<invocation, n, fs, disk, za, file_size, buffer, idx,
                   extract_locals, exit>>

CAdd ==
    /\ pc = "c_add"
    /\ \E inj \in Inject(TRUE) :
          /\ Charge(inj)
          /\ idx' = zip_file_add(za, base_name, SubSeq(heap[src].data, 1, file_size),
                                 src, MethodStore, inj)[1]
          /\ za' = zip_file_add(za, base_name, SubSeq(heap[src].data, 1, file_size),
                                src, MethodStore, inj)[2]
          /\ heap' = zip_source_free(heap, idx', src)
          /\ log' = Append(log, Ev("zip_file_add", i, idx' >= 0, idx'))
          /\ IF AddFailed(idx')
             THEN Continue("c_loop")
             ELSE pc' = "c_set" /\ i' = i
    /\ UNCHANGED <<invocation, n, fs, disk, file_size, buffer, base_name, src,
                   extract_locals, exit>>

CSetMethod ==
    /\ pc = "c_set"
    /\ \E inj \in Inject(TRUE) :
          /\ Charge(inj)
          /\ za' = zip_set_file_compression(za, idx, MethodStore, inj)[2]
          /\ log' = Append(log, Ev("zip_set_file_compression", i,
                                   zip_set_file_compression(za, idx, MethodStore, inj)[1] = 0,
                                   idx))
          /\ Continue("c_loop")
    /\ UNCHANGED <<invocation, n, fs, disk, heap, create_locals, extract_locals, exit>>

CClose ==
    /\ pc = "c_close"
    /\ \E inj \in Inject(za.dirty) :
          /\ Charge(inj)
          /\ CloseArchive(inj)
    /\ exit' = 0
    /\ pc' = "done"
    /\ UNCHANGED <<invocation, i, n, fs, create_locals, extract_locals>>

(* ---------------- extract_all ---------------- *)
NoPayload_Never(f) == FALSE

NoPayload(f) == ~f.live

(* what a read of zf->size yields: the size while the handle is live, an *)
(* indeterminate value (the old one or another) once it is released      *)
StaleRead(f) == IF f.live THEN {f.size} ELSE {f.size, f.size + 1}

XOpen ==
    /\ pc = "x_open"
    /\ \E inj \in Inject(TRUE) :
          /\ Charge(inj)
          /\ za' = zip_open(disk, ZIP_RDONLY, inj)
          /\ IF za'.state = "null"
             THEN /\ log' = Append(log, Ev("zip_open", 0, FALSE, ZIP_RDONLY))
                  /\ n' = n /\ exit' = 1 /\ pc' = "done"
             ELSE /\ log' = log \o <<Ev("zip_open", 0, TRUE, ZIP_RDONLY),
                                     Ev("zip_get_num_files", 0, TRUE, {})>>
                  /\ n' = zip_get_num_files(za') /\ exit' = exit /\ pc' = "x_loop"
    /\ UNCHANGED <<invocation, i, fs, disk, heap, create_locals, extract_locals>>

XLoop ==
    /\ pc = "x_loop"
    /\ pc' = IF i < n THEN "x_fopen_index" ELSE "x_close"
    /\ UNCHANGED <<invocation, faults, i, n, fs, disk, za, heap, create_locals,
                   extract_locals, log, exit>>

XFopenIndex ==
    /\ pc = "x_fopen_index"
    /\ \E inj \in Inject(~NoPayload(zip_fopen_index(za, i, FALSE))) :
          /\ Charge(inj)
          /\ zf' = zip_fopen_index(za, i, inj)
          /\ log' = Append(log, Ev("zip_fopen_index", i, zf'.live, i))
          /\ IF NoPayload(zf')
             THEN Continue("x_loop")
             ELSE pc' = "x_fopen_out" /\ i' = i
    /\ UNCHANGED <<invocation, n, fs, disk, za, heap, create_locals, fname, printed, exit>>

CannotCreate_Return ==
    /\ zf' = [zf EXCEPT !.live = FALSE]
    /\ log' = log \o <<Ev("fopen_out", i, FALSE, fname'), Ev("zip_fclose", i, TRUE, zf.live)>>
    /\ i' = i /\ exit' = 1 /\ pc' = "done"

(* lines 147-151: the output file could not be created *)
CannotCreate ==
    /\ zf' = [zf EXCEPT !.live = FALSE]
    /\ log' = log \o <<Ev("fopen_out", i, FALSE, fname'), Ev("zip_fclose", i, TRUE, zf.live)>>
    /\ exit' = exit
    /\ Continue("x_loop")

XFopenOut ==
    /\ pc = "x_fopen_out"
    /\ fname' = za.dir[i + 1].name
    /\ \E inj \in Inject(TRUE) :
          /\ Charge(inj)
          /\ IF inj
             THEN CannotCreate /\ fs' = fs
             ELSE /\ fs' = [fs EXCEPT ![fname'] = File(<<>>)]
                  /\ log' = Append(log, Ev("fopen_out", i, TRUE, fname'))
                  /\ zf' = zf /\ exit' = exit
                  /\ pc' = "x_write" /\ i' = i
    /\ UNCHANGED <<invocation, n, disk, za, heap, create_locals, printed>>

XWrite ==
    /\ pc = "x_write"
    /\ fs' = [fs EXCEPT ![fname] = File(SubSeq(zf.data, 1, zf.size))]
    /\ log' = log \o <<Ev("zf_read", i, TRUE, zf.live),
                       Ev("fwrite", i, TRUE, SubSeq(zf.data, 1, zf.size))>>
    /\ pc' = "x_fclose"
    /\ UNCHANGED <<invocation, faults, i, n, disk, za, heap, create_locals,
                   extract_locals, exit>>

XFclose ==
    /\ pc = "x_fclose"
    /\ zf' = [zf EXCEPT !.live = FALSE]
    /\ log' = Append(log, Ev("zip_fclose", i, TRUE, zf.live))
    /\ pc' = "x_print"
    /\ UNCHANGED <<invocation, faults, i, n, fs, disk, za, heap, create_locals,
                   fname, printed, exit>>

XPrint ==
    /\ pc = "x_print"
    /\ printed' \in StaleRead(zf)
    /\ log' = Append(log, Ev("zf_read", i, TRUE, zf.live))
    /\ Continue("x_loop")
    /\ UNCHANGED <<invocation, faults, n, fs, disk, za, heap, create_locals,
                   zf, fname, exit>>

XClose ==
    /\ pc = "x_close"
    /\ CloseArchive(FALSE)
    /\ exit' = 0
    /\ pc' = "done"
    /\ UNCHANGED <<invocation, faults, i, n, fs, create_locals, extract_locals>>

(* ======================= the claims ======================= *)
EngineOps == {"zip_open", "zip_get_num_files", "zip_source_buffer", "zip_file_add",
              "zip_set_file_compression", "zip_fopen_index", "zip_fclose", "zip_close"}
Events(op) == {j \in 1..Len(log) : log[j].op = op}
Succeeded(op) == {j \in Events(op) : log[j].ok}
Failed(op) == {j \in Events(op) : ~log[j].ok}
NoFailure == \A j \in 1..Len(log) : log[j].ok
Opened == Succeeded("zip_open") # {}
CloseOk == Succeeded("zip_close") # {}
Mode == Dispatch(argv)
IsAttempt(e) == e.op \in {"fopen", "zip_fopen_index"}
Attempts == SelectSeq(log, IsAttempt)
(* the part of a path after its last '/', stated without strrchr *)
Tails(f) == {SubSeq(f, k, Len(f)) : k \in 1..(Len(f) + 1)}
NameOf(f) == CHOOSE t \in Tails(f) :
                 /\ \A k \in 1..Len(t) : t[k] # "/"
                 /\ (Len(t) = Len(f) \/ f[Len(f) - Len(t)] = "/")
DistinctNames(fl) == \A p, q \in 1..Len(fl) : p # q => NameOf(fl[p]) # NameOf(fl[q])
OutputsNamed(nm) == {j \in Succeeded("fopen_out") : log[j].val = nm}

(* C1: create (-c) followed by extract-all (-x): when the input files'      *)
(* base names are pairwise distinct, every input file comes out as exactly  *)
(* one output file named by its base name and holding its bytes, and there  *)
(* are no other outputs; every entry a create run writes has method store.  *)
C1_RoundTrip ==
    /\ \A k \in 1..Len(za.dir) : za.dir[k].staged => za.dir[k].method = 0
    /\ (pc = "done" /\ Mode = "create_or_add_files" /\ create_mode /\ CloseOk)
          => \A k \in 1..Len(disk.entries) : disk.entries[k].method = 0
    /\ (pc = "done" /\ Mode = "extract_all"
        /\ prev.kind = "create_or_add_files" /\ prev.create
        /\ DistinctNames(prev.files))
          => /\ \A k \in 1..Len(prev.files) :
                   /\ fs[NameOf(prev.files[k])] = File(prev.fs[prev.files[k]].data)
                   /\ Cardinality(OutputsNamed(NameOf(prev.files[k]))) = 1
             /\ Cardinality(Succeeded("fopen_out")) = Len(prev.files)
             /\ Cardinality(Events("fwrite")) = Len(prev.files)

C1_Witness ==
    /\ pc = "done" /\ Mode = "extract_all"
    /\ prev.kind = "create_or_add_files" /\ prev.create /\ prev.fresh
    /\ prev.files = <<PathDB, PathA>>
    /\ fs[PathB] = File(<<>>) /\ fs[PathA] = File(<<1, 2>>)

(* C2: the exit status is 0 exactly when no failure was met during the run. *)
C2_ExitStatusTellsFailure ==
    pc = "done" => (exit = 0 <=> NoFailure /\ Mode # "usage")

(* C3: every file of a create/append run, and every entry of an extract    *)
(* run, is attempted exactly once and in order whatever failed before it,  *)
(* and the run ends with the archive closed.                               *)
C3_BestEffort ==
    /\ \A k \in 1..Len(Attempts) : Attempts[k].i = k - 1
    /\ (pc = "done" /\ Opened /\ Mode = "create_or_add_files")
          => Len(Attempts) = Len(files)
    /\ (pc = "done" /\ Opened /\ Mode = "extract_all")
          => Len(Attempts) = Len(disk0.entries)
    /\ (pc = "done" /\ Opened)
          => log[Len(log)].op = "zip_close" /\ za.state = "closed"

C3_Witness ==
    /\ pc = "done" /\ Mode = "create_or_add_files"
    /\ \E j \in 1..Len(log) : log[j].i = 0 /\ ~log[j].ok
    /\ Succeeded("zip_file_add") # {}
    /\ Len(Attempts) = MaxFiles

UsageError(a) ==
    \/ Len(a) - 1 < 2
    \/ a[2] \notin {FlagL, FlagX, FlagC, FlagA}
    \/ (a[2] \in {FlagL, FlagX} /\ Len(a) - 1 > 2)
    \/ (a[2] \in {FlagC, FlagA} /\ Len(a) - 1 = 2)

(* C4: a usage error (fewer than two arguments, an unknown mode flag, list *)
(* or extract with an extra argument, create or append without input       *)
(* files) exits with status 1 and no engine operation, the archive and the *)
(* files untouched.                                                        *)
C4_UsageErrors ==
    (pc # "idle" /\ UsageError(argv))
        => /\ pc = "done" /\ exit = 1
           /\ log = <<>> /\ za.state = "null"
           /\ disk = disk0 /\ fs = InitialFs

C4_Witness ==
    pc = "done" /\ argv = <<Prog, FlagL, ZipPath, PathA>> /\ disk.exists /\ disk.valid

AddedEntry(j) ==
    Entry(NameOf(files[log[j].i + 1]), fs[files[log[j].i + 1]].data, 0,
          crc32(fs[files[log[j].i + 1]].data), FALSE, 0)
RECURSIVE AddedFrom(_)
AddedFrom(j) ==
    IF j > Len(log) THEN <<>>
    ELSE IF log[j].op = "zip_file_add" /\ log[j].ok
         THEN <<AddedEntry(j)>> \o AddedFrom(j + 1)
         ELSE AddedFrom(j + 1)

(* C5: create always opens with truncation and append never does; an       *)
(* append run on an existing archive that closes successfully leaves the   *)
(* original entries first, unchanged and in order, followed by the entries *)
(* added successfully, in command-line order.                              *)
C5_AppendPreserves ==
    /\ \A j \in Events("zip_open") :
          Mode = "create_or_add_files"
             => /\ "ZIP_CREATE" \in log[j].val
                /\ ("ZIP_TRUNCATE" \in log[j].val <=> argv[2] = FlagC)
    /\ (pc = "done" /\ Mode = "create_or_add_files" /\ argv[2] = FlagA
        /\ disk0.exists /\ disk0.valid /\ Opened /\ CloseOk)
          => /\ disk.exists /\ disk.valid
             /\ disk.entries = disk0.entries \o AddedFrom(1)
             /\ Len(disk.entries)
                   = Len(disk0.entries) + Cardinality(Succeeded("zip_file_add"))

C5_Witness ==
    /\ pc = "done" /\ Mode = "create_or_add_files" /\ argv[2] = FlagA
    /\ disk0 = DamagedArchive
    /\ Failed("zip_file_add") # {}
    /\ Len(disk.entries) = Len(disk0.entries) + 1
    /\ SubSeq(disk.entries, 1, Len(disk0.entries)) = DamagedArchive.entries

(* C6: set_entry_method is called only with the index the add_entry of the *)
(* same iteration has just returned, never with a negative one, on the     *)
(* open handle before its close; whether or not it succeeds, the staged    *)
(* entry stays in the directory and is written by close.                   *)
C6_SetMethodAfterAdd ==
    \A j \in Events("zip_set_file_compression") :
        /\ j > 1
        /\ log[j - 1].op = "zip_file_add" /\ log[j - 1].ok
        /\ log[j - 1].i = log[j].i
        /\ log[j].val = log[j - 1].val /\ log[j].val >= 0
        /\ \A c \in Events("zip_close") : c > j
        /\ \E o \in Succeeded("zip_open") : o < j
        /\ za.state = "writable"
              => /\ log[j].val < Len(za.dir)
                 /\ za.dir[log[j].val + 1].staged
                 /\ za.dir[log[j].val + 1].name = NameOf(files[log[j].i + 1])
        /\ CloseOk
              => /\ log[j].val < Len(disk.entries)
                 /\ disk.entries[log[j].val + 1].name = NameOf(files[log[j].i + 1])

C6_Witness ==
    /\ pc = "done" /\ CloseOk
    /\ Failed("zip_set_file_compression") # {}
    /\ Succeeded("zip_set_file_compression") # {}

(* C7: a successful open is followed by exactly one close, which is the    *)
(* last operation of the run; a failed open is followed by no engine       *)
(* operation and the exit status 1.                                        *)
C7_OpenClosePaired ==
    /\ Cardinality(Events("zip_open")) <= 1
    /\ Cardinality(Events("zip_close")) <= 1
    /\ \A j \in 1..Len(log) : log[j].op \in EngineOps => Events("zip_open") = {1}
    /\ \A c \in Events("zip_close") : c = Len(log) /\ Opened
    /\ Failed("zip_open") # {} => Len(log) = 1 /\ pc = "done" /\ exit = 1
    /\ (pc = "done" /\ Opened) => Cardinality(Events("zip_close")) = 1

C7_Witness ==
    /\ pc = "done" /\ Mode = "extract_all"
    /\ Failed("fopen_out") # {} /\ Failed("zip_fopen_index") # {}
    /\ Cardinality(Events("zip_close")) = 1

(* C8: every buffer allocated for an input file is released exactly once:  *)
(* by the utility exactly when the read or the source creation fails, and  *)
(* by the engine once the source owns it.                                  *)
C8_BuffersReleasedOnce ==
    /\ \A b \in 1..Len(heap) : heap[b].frees <= 1
    /\ pc = "done" => \A b \in 1..Len(heap) : heap[b].frees = 1
    /\ Cardinality(Succeeded("malloc")) = Len(heap)
    /\ \A j \in Events("free") :
          /\ heap[log[j].val].owner = "cli"
          /\ j > 1 /\ log[j - 1].op \in {"fread", "zip_source_buffer"}
          /\ ~log[j - 1].ok /\ log[j - 1].val = log[j].val
    /\ \A j \in Failed("fread") \cup Failed("zip_source_buffer") :
          j < Len(log) /\ log[j + 1].op = "free" /\ log[j + 1].val = log[j].val
    /\ \A j \in Succeeded("zip_source_buffer") :
          /\ heap[log[j].val].owner = "engine"
          /\ \A k \in Events("free") : log[k].val # log[j].val

C8_Witness ==
    /\ pc = "done"
    /\ Events("free") # {} /\ Failed("zip_file_add") # {}
    /\ Len(heap) = MaxFiles

(* C9: extract-all creates, truncates or writes the output file of entry i *)
(* only after get_payload(i) has succeeded, and then writes exactly the    *)
(* entry's payload.                                                        *)
C9_NoOutputWithoutPayload ==
    /\ \A j \in Events("fopen_out") \cup Events("fwrite") :
          \E g \in Succeeded("zip_fopen_index") : g < j /\ log[g].i = log[j].i
    /\ \A j \in Events("fwrite") : log[j].val = disk0.entries[log[j].i + 1].data
    /\ \A p \in AllPaths :
          fs[p] # InitialFs[p]
             => \E g \in Succeeded("zip_fopen_index") :
                   disk0.entries[log[g].i + 1].name = p
    /\ \A g \in Failed("zip_fopen_index") :
          (\A h \in Succeeded("zip_fopen_index") :
               disk0.entries[log[h].i + 1].name # disk0.entries[log[g].i + 1].name)
             => fs[disk0.entries[log[g].i + 1].name]
                   = InitialFs[disk0.entries[log[g].i + 1].name]

C9_Witness ==
    /\ pc = "done" /\ disk0 = DamagedArchive
    /\ Failed("zip_fopen_index") = {3}
    /\ ~fs[PathB].exists
    /\ fs[PathA] = File(<<6, 7>>)

(* C10: each entry handle is closed exactly once and none of its fields is *)
(* read after that close.                                                  *)
C10_NoReadAfterClose ==
    /\ \A j \in Events("zf_read") : log[j].val
    /\ \A j \in Events("zip_fclose") : log[j].val
    /\ pc = "done"
          => \A g \in Succeeded("zip_fopen_index") :
                Cardinality({j \in Events("zip_fclose") : log[j].i = log[g].i}) = 1

Next ==
    \/ main
    \/ LOpen \/ LLoop \/ LClose
    \/ COpen \/ CLoop \/ CFopen \/ CSize \/ CMalloc \/ CRead \/ CSource
    \/ CAdd \/ CSetMethod \/ CClose
    \/ XOpen \/ XLoop \/ XFopenIndex \/ XFopenOut \/ XWrite \/ XFclose
    \/ XPrint \/ XClose

Spec == Init /\ [][Next]_vars
SpecSession == InitSession /\ [][Next]_vars
====
